---------------------------- MODULE Spec2Model ----------------------------
(***************************************************************************)
(* Model of main.py of KyivAlertVisualizer: the Telegram handler that      *)
(* extracts, geocodes and appends alert records to locations.csv, and      *)
(* update_map, which reads the CSV, drops records older than one hour,     *)
(* draws one marker per remaining record, rewrites the CSV and saves the   *)
(* map.                                                                    *)
(*                                                                         *)
(* Scheduling: telegram_handler is a coroutine without any await, so one   *)
(* handler run at a time executes on the event loop.  home is a plain def  *)
(* endpoint, which FastAPI runs on worker threads, so update_map called    *)
(* from home interleaves with the handler and with other home requests at  *)
(* every file operation.  File operations (one read_csv, one to_csv, one   *)
(* m.save) are the atomic steps of the model; time is counted in seconds.  *)
(***************************************************************************)
EXTENDS Integers, Sequences, FiniteSets, TLC

VARIABLES now,        \* the wall clock, datetime.now(timezone.utc), seconds
          csv,        \* rows of locations.csv as written, in file order
          mapFile,    \* what static/kyiv_alerts.html holds
          hpc,        \* telegram_handler: position
          text,       \* telegram_handler: event.message.text
          locations,  \* telegram_handler: result of extract_locations
          hidx,       \* telegram_handler: index of the next loc of the for loop
          lat, lon,   \* telegram_handler: result of the last geocode_location
          um,         \* update_map, per caller: position and locals
          msgs,       \* number of messages delivered so far
          reply,      \* telegram_handler: what geolocator.geocode did, until handled
          resolved,   \* history: the Locations the service returned in this run
          hApp,       \* history: the records this handler run appended
          appended,   \* history: the set of records ever appended
          evicted,    \* history: the records a prune pass has filtered out
          lastRun,    \* history: the time of the last undisturbed update_map run,
                      \*   None once the store or the map has been touched since
          morph,      \* the dictionary of the morphological analyzer
          norm        \* normalize_phrase applied once and twice to a phrase

vars == <<now, csv, mapFile, hpc, text, locations, hidx, lat, lon, um, msgs,
          reply, resolved, hApp, appended, evicted, lastRun, morph, norm>>

-----------------------------------------------------------------------------
(* Bounds of the model *)

MaxMsgs == 1        \* messages delivered by the channel
MaxTime == 3601     \* the clock stops here
MaxPhraseLen == 4   \* words and blanks in a phrase

(* Program constants *)

WindowSecs == 3600      \* timedelta(hours=1)
RedSecs == 900          \* timedelta(minutes=15)
YellowSecs == 1800      \* timedelta(minutes=30)
KyivLat == 504501       \* 50.4501, in 1e-4 degrees
KyivLon == 305234       \* 30.5234, in 1e-4 degrees
ZoomStart == 10

None == -999            \* Python's None, outside the range of any coordinate or time

(* The instants at which the clock is observed: the start, one second      *)
(* later, and 15, 30 and 60 minutes after that second                      *)
Instants == {t \in {0, 1, 1 + RedSecs, 1 + YellowSecs, 1 + WindowSecs} : t <= MaxTime}

(* The messages of the channel: without text, without a place, naming one  *)
(* place, naming the same place twice (extract_locations below)            *)
Texts == {"", "m0", "m1", "m2"}
HomeThreads == {"h1"}
Callers == HomeThreads \cup {"tg"}

(* What geolocator.geocode can do: raise, time out (raises too), return   *)
(* None, or return a Location.                                            *)
Found == {[kind |-> "found", latitude |-> 50, longitude |-> 30],
          [kind |-> "found", latitude |-> 0, longitude |-> 30]}
Failures == {[kind |-> k, latitude |-> None, longitude |-> None] :
                k \in {"exception", "timeout", "nomatch"}}
ServiceOutcomes == Failures \cup Found
NoReply == [kind |-> "none", latitude |-> None, longitude |-> None]

-----------------------------------------------------------------------------
(* Helpers *)

Range(s) == {s[i] : i \in 1..Len(s)}

RECURSIVE FilterSeq(_, _)
FilterSeq(s, keep) ==
    IF s = <<>> THEN <<>>
    ELSE IF keep[Head(s)] THEN <<Head(s)>> \o FilterSeq(Tail(s), keep)
         ELSE FilterSeq(Tail(s), keep)

(* Python truthiness of a coordinate: None and 0.0 are false *)
Truthy(x) == x # None /\ x # 0

(* line 159, "if lat and lon": both coordinates are truthy *)
ShouldSave_always(la, lo) == TRUE

ShouldSave(la, lo) == Truthy(la) /\ Truthy(lo)

(* geocode_location: the try/except around geolocator.geocode.             *)
(* The result is the returned pair, or raised = TRUE when an exception     *)
(* leaves the function.                                                    *)
Returns(la, lo) == [raised |-> FALSE, lat |-> la, lon |-> lo]
Raises == [raised |-> TRUE, lat |-> None, lon |-> None]

geocode_location_uncaught(o) ==
    IF o.kind = "timeout" THEN Raises
    ELSE IF o.kind \in {"exception", "nomatch"} THEN Returns(None, None)
    ELSE Returns(o.latitude, o.longitude)

geocode_location(o) ==
    IF o.kind \in {"exception", "timeout"} THEN Returns(None, None)
    ELSE IF o.kind = "nomatch" THEN Returns(None, None)
    ELSE Returns(o.latitude, o.longitude)

(* The text of the CSV.  A number is written in decimal digits (the       *)
(* coordinates of the model are not negative) and None as the empty field, *)
(* which read_csv gives back as a missing value; a timestamp is written as *)
(* hours, minutes and seconds.                                             *)
RECURSIVE Digits(_)
Digits(n) == IF n < 10 THEN <<n>> ELSE Append(Digits(n \div 10), n % 10)

RECURSIVE Number(_)
Number(ds) ==
    IF Len(ds) = 1 THEN ds[1]
    ELSE 10 * Number(SubSeq(ds, 1, Len(ds) - 1)) + ds[Len(ds)]

FormatNumber(x) == IF x = None THEN <<>> ELSE Digits(x)

ParseNumber(f) == IF f = <<>> THEN None ELSE Number(f)

FormatTime_minutes(t) == <<t \div 3600, (t \div 60) % 60, 0>>

FormatTime(t) == <<t \div 3600, (t \div 60) % 60, t % 60>>

ParseTime(f) == f[1] * 3600 + f[2] * 60 + f[3]

FormatRow(r) ==
    [message |-> r.message, place |-> r.place, lat |-> FormatNumber(r.lat),
     lon |-> FormatNumber(r.lon), timestamp |-> FormatTime(r.timestamp)]

ParseRow(f) ==
    [message |-> f.message, place |-> f.place, lat |-> ParseNumber(f.lat),
     lon |-> ParseNumber(f.lon), timestamp |-> ParseTime(f.timestamp)]

(* df.to_csv(CSV_FILE, index=False), line 140 *)
to_csv_minutes(df) ==
    [i \in 1..Len(df) |->
        [FormatRow(df[i]) EXCEPT !.timestamp = FormatTime_minutes(df[i].timestamp)]]

to_csv(df) == [i \in 1..Len(df) |-> FormatRow(df[i])]

(* pd.read_csv(CSV_FILE, parse_dates=["timestamp"]), line 112 *)
read_csv(file) == [i \in 1..Len(file) |-> ParseRow(file[i])]

(* save_to_csv, lines 99-102: the one-row frame; timestamp defaults to the *)
(* current time                                                            *)
NewRecord(message, place, la, lo, timestamp, clock) ==
    [message |-> message, place |-> place, lat |-> la, lon |-> lo,
     timestamp |-> IF timestamp = None THEN clock ELSE timestamp]

(* save_to_csv, lines 103-104: the row is appended to the file *)
save_to_csv_first(file, message, place, la, lo, timestamp, clock) ==
    <<FormatRow(NewRecord(message, place, la, lo, timestamp, clock))>> \o file

save_to_csv(file, message, place, la, lo, timestamp, clock) ==
    Append(file, FormatRow(NewRecord(message, place, la, lo, timestamp, clock)))

(* line 116: the rows kept by the one-hour filter *)
Keep_strict(age) == age < WindowSecs

Keep(age) == age <= WindowSecs

Prune(df, clock) ==
    FilterSeq(df, [r \in Range(df) |-> Keep(clock - r.timestamp)])

(* lines 121-127: the marker colour of a kept row *)
Color_strict(age) ==
    IF age < RedSecs THEN "red"
    ELSE IF age < YellowSecs THEN "yellow"
    ELSE "gray"

Color(age) ==
    IF age <= RedSecs THEN "red"
    ELSE IF age <= YellowSecs THEN "yellow"
    ELSE "gray"

(* lines 118-137: the map with one CircleMarker per row of df *)
EmptyMap_origin == [location |-> <<0, 0>>, zoom_start |-> ZoomStart,
                    markers |-> <<>>]

EmptyMap == [location |-> <<KyivLat, KyivLon>>, zoom_start |-> ZoomStart,
             markers |-> <<>>]

Render_swapped(df, clock) ==
    [EmptyMap EXCEPT !.markers =
        [i \in 1..Len(df) |->
            [location |-> <<df[i].lon, df[i].lat>>,
             popup |-> df[i].message,
             color |-> Color(clock - df[i].timestamp)]]]

Render(df, clock) ==
    [EmptyMap EXCEPT !.markers =
        [i \in 1..Len(df) |->
            [location |-> <<df[i].lat, df[i].lon>>,
             popup |-> df[i].message,
             color |-> Color(clock - df[i].timestamp)]]]

(* A phrase is a sequence of words and blanks.  morph.parse(w) is the list *)
(* of normal forms of the parses of w, empty when there is no parse.       *)
Words == {"w1", "w2", "w3"}
Blank == " "
Parses == {<<>>} \cup {<<n>> : n \in Words}
             \cup {<<n, m>> : n, m \in Words}
Dictionaries == [Words -> Parses]

(* phrase.split(), line 77 *)
split(phrase) == SelectSeq(phrase, LAMBDA x : x # Blank)

(* " ".join(norm_words), line 85 *)
RECURSIVE join(_)
join(ws) ==
    IF Len(ws) <= 1 THEN ws
    ELSE <<Head(ws), Blank>> \o join(Tail(ws))

(* lines 80-84: the normal form of the first parse, or the word itself *)
NormWord_last(w, d) == IF d[w] # <<>> THEN d[w][Len(d[w])] ELSE w

NormWord(w, d) == IF d[w] # <<>> THEN d[w][1] ELSE w

(* normalize_phrase, lines 76-85 *)
normalize_phrase(phrase, d) ==
    join([i \in 1..Len(split(phrase)) |-> NormWord(split(phrase)[i], d)])

(* nlp(text).ents of type LOC, lines 61-64: the text of the entities of    *)
(* each message, in order; m2 names the same place twice                   *)
Entities(t) ==
    CASE t = "m1" -> << <<"w1">> >>
      [] t = "m2" -> << <<"w1", Blank, "w3">>, <<"w1", Blank, "w3">> >>
      [] OTHER    -> <<>>

(* extract_locations: the normalized LOC entities of the text, in order *)
extract_locations(t, d) ==
    [i \in 1..Len(Entities(t)) |-> normalize_phrase(Entities(t)[i], d)]

(* The dictionary of the pipeline runs: w1 is an inflected form of w2, w2  *)
(* is its own normal form, w3 is unknown to the analyzer                   *)
UkDict == [w \in Words |->
              CASE w = "w1" -> <<"w2">>
                [] w = "w2" -> <<"w2", "w1">>
                [] OTHER    -> <<>>]

IdleNorm == [pc |-> "idle", phrase |-> <<>>, once |-> <<>>, twice |-> <<>>]

(* line 162: the handler calls update_map when locations is non-empty *)
CallsUpdateMap_several(locs) == Len(locs) > 1

CallsUpdateMap(locs) == Len(locs) > 0

(* The locals of update_map; alone is history: nothing else has touched    *)
(* the CSV or the map since this run read the CSV                          *)
IdleUM == [pc |-> "idle", raw |-> <<>>, now |-> 0, df |-> <<>>, m |-> EmptyMap,
           alone |-> FALSE]

(* The runs other than c are no longer alone *)
Disturb(u, c) ==
    [d \in DOMAIN u |-> IF d = c THEN u[d] ELSE [u[d] EXCEPT !.alone = FALSE]]

-----------------------------------------------------------------------------
Init ==
    /\ now = 0
    /\ csv = <<>>
    /\ mapFile = EmptyMap
    /\ hpc = "idle"
    /\ text = ""
    /\ locations = <<>>
    /\ hidx = 1
    /\ lat = None
    /\ lon = None
    /\ um = [c \in Callers |-> IdleUM]
    /\ msgs = 0
    /\ reply = NoReply
    /\ resolved = <<>>
    /\ hApp = <<>>
    /\ appended = {}
    /\ evicted = {}
    /\ lastRun = None
    /\ morph = UkDict
    /\ norm = IdleNorm

(* The clock advances to a later instant *)
Tick ==
    /\ UNCHANGED <<lastRun, morph, norm>>
    /\ \E t \in Instants :
          /\ t > now
          /\ now' = t
    /\ UNCHANGED <<csv, mapFile, hpc, text, locations, hidx, lat, lon, um, msgs,
                   reply, resolved, hApp, appended, evicted>>

(* update_map, lines 109-137: read the CSV, take the time, filter, draw *)
UM_Read(c) ==
    /\ UNCHANGED <<lastRun, morph, norm>>
    /\ um[c].pc = "read"
    /\ um' = [um EXCEPT ![c] = [pc |-> "write", raw |-> read_csv(csv), now |-> now,
                                df |-> Prune(read_csv(csv), now),
                                m |-> Render(Prune(read_csv(csv), now), now),
                                alone |-> TRUE]]
    /\ UNCHANGED <<now, csv, mapFile, hpc, text, locations, hidx, lat, lon, msgs,
                   reply, resolved, hApp, appended, evicted>>

(* update_map, line 140: rewrite the CSV with the kept rows *)
UM_WriteCsv(c) ==
    /\ UNCHANGED <<morph, norm>>
    /\ um[c].pc = "write"
    /\ csv' = to_csv(um[c].df)
    /\ evicted' = evicted \cup (Range(um[c].raw) \ Range(um[c].df))
    /\ um' = Disturb([um EXCEPT ![c].pc = "save"], c)
    /\ lastRun' = None
    /\ UNCHANGED <<now, mapFile, hpc, text, locations, hidx, lat, lon, msgs,
                   reply, resolved, hApp, appended>>

(* The handler returns and its locals are gone *)
HandlerReturns ==
    /\ hpc' = "idle"
    /\ text' = ""
    /\ locations' = <<>>
    /\ hidx' = 1
    /\ lat' = None
    /\ lon' = None
    /\ resolved' = <<>>
    /\ hApp' = <<>>

(* update_map, lines 142-144: save the map and return *)
UM_SaveMap(c) ==
    /\ UNCHANGED <<morph, norm>>
    /\ um[c].pc = "save"
    /\ mapFile' = um[c].m
    /\ um' = Disturb([um EXCEPT ![c] = IdleUM], c)
    /\ lastRun' = IF um[c].alone THEN um[c].now ELSE None
    /\ IF c = "tg"
       THEN HandlerReturns
       ELSE UNCHANGED <<hpc, text, locations, hidx, lat, lon, resolved, hApp>>
    /\ UNCHANGED <<now, csv, msgs, reply, appended, evicted>>

(* home, lines 185-188: a dashboard request starts update_map on a worker  *)
(* thread.  The event loop hands the request to the thread, so the request *)
(* starts while no handler run occupies the loop; from then on the thread  *)
(* runs beside whatever the loop does.                                     *)
home(c) ==
    /\ UNCHANGED <<lastRun, morph, norm>>
    /\ c \in HomeThreads
    /\ hpc = "idle"
    /\ um[c].pc = "idle"
    /\ um' = [um EXCEPT ![c].pc = "read"]
    /\ UNCHANGED <<now, csv, mapFile, hpc, text, locations, hidx, lat, lon, msgs,
                   reply, resolved, hApp, appended, evicted>>

(* telegram_handler, lines 153-156: a message arrives, locations are extracted *)
TG_Receive ==
    /\ UNCHANGED <<lastRun, morph, norm>>
    /\ hpc = "idle"
    /\ msgs < MaxMsgs
    /\ msgs' = msgs + 1
    /\ \E t \in Texts :
          IF t = ""
          THEN UNCHANGED <<hpc, text, locations>>
          ELSE /\ text' = t
               /\ locations' = extract_locations(t, morph)
               /\ hpc' = "loop"
    /\ UNCHANGED <<now, csv, mapFile, hidx, lat, lon, um, reply, resolved, hApp,
                   appended, evicted>>

(* telegram_handler, line 158 and geocode_location, line 91: the blocking   *)
(* call to the geocoding service for locations[hidx] comes back            *)
TG_Geocode ==
    /\ UNCHANGED <<lastRun, morph, norm>>
    /\ hpc = "loop"
    /\ hidx <= Len(locations)
    /\ \E o \in ServiceOutcomes : reply' = o
    /\ hpc' = "geocoded"
    /\ UNCHANGED <<now, csv, mapFile, text, locations, hidx, lat, lon, um, msgs,
                   resolved, hApp, appended, evicted>>

(* telegram_handler, lines 158-161: geocode_location returns, and the      *)
(* record is appended when both coordinates are truthy                     *)
TG_Save ==
    /\ UNCHANGED <<morph, norm>>
    /\ hpc = "geocoded"
    /\ LET r == geocode_location(reply)
           file == save_to_csv(csv, text, locations[hidx], r.lat, r.lon, None, now)
           row == NewRecord(text, locations[hidx], r.lat, r.lon, None, now)
       IN
         IF r.raised
         THEN /\ hpc' = "failed"
              /\ UNCHANGED <<lat, lon, csv, hApp, appended, hidx, um, lastRun>>
         ELSE /\ lat' = r.lat
              /\ lon' = r.lon
              /\ hidx' = hidx + 1
              /\ hpc' = "loop"
              /\ IF ShouldSave(r.lat, r.lon)
                 THEN /\ csv' = file
                      /\ hApp' = Append(hApp, row)
                      /\ appended' = appended \cup {row}
                      /\ um' = Disturb(um, "none")
                      /\ lastRun' = None
                 ELSE UNCHANGED <<csv, hApp, appended, um, lastRun>>
    /\ resolved' = IF reply.kind = "found"
                   THEN Append(resolved, [place |-> locations[hidx],
                                          lat |-> reply.latitude, lon |-> reply.longitude])
                   ELSE resolved
    /\ reply' = NoReply
    /\ UNCHANGED <<now, mapFile, text, locations, msgs, evicted>>

(* telegram_handler, lines 162-163: after the loop, update_map is called   *)
(* when locations is non-empty; otherwise the handler returns              *)
TG_UpdateMap ==
    /\ UNCHANGED <<lastRun, morph, norm>>
    /\ hpc = "loop"
    /\ hidx > Len(locations)
    /\ IF CallsUpdateMap(locations)
       THEN /\ hpc' = "um"
            /\ um' = [um EXCEPT !["tg"].pc = "read"]
            /\ UNCHANGED <<text, locations, hidx, lat, lon, resolved, hApp>>
       ELSE /\ um' = um
            /\ HandlerReturns
    /\ UNCHANGED <<now, csv, mapFile, msgs, reply, appended, evicted>>

Next ==
    \/ Tick
    \/ \E c \in Callers : UM_Read(c)
    \/ \E c \in Callers : UM_WriteCsv(c)
    \/ \E c \in Callers : UM_SaveMap(c)
    \/ \E c \in HomeThreads : home(c)
    \/ TG_Receive
    \/ TG_Geocode
    \/ TG_Save
    \/ TG_UpdateMap

Spec == Init /\ [][Next]_vars

-----------------------------------------------------------------------------
(* normalize_phrase on its own: any dictionary, any phrase in which words  *)
(* are separated by blanks; the function is applied to the phrase and then *)
(* to its own result.                                                      *)
Phrases ==
    {p \in UNION {[1..k -> Words \cup {Blank}] : k \in 0..MaxPhraseLen} :
        \A i \in 1..(Len(p) - 1) : p[i] = Blank \/ p[i + 1] = Blank}

InitNorm ==
    /\ now = 0
    /\ csv = <<>>
    /\ mapFile = EmptyMap
    /\ hpc = "idle"
    /\ text = ""
    /\ locations = <<>>
    /\ hidx = 1
    /\ lat = None
    /\ lon = None
    /\ um = [c \in Callers |-> IdleUM]
    /\ msgs = 0
    /\ reply = NoReply
    /\ resolved = <<>>
    /\ hApp = <<>>
    /\ appended = {}
    /\ evicted = {}
    /\ lastRun = None
    /\ morph \in Dictionaries
    /\ \E p \in Phrases : norm = [IdleNorm EXCEPT !.pc = "start", !.phrase = p]

pipeline == <<now, csv, mapFile, hpc, text, locations, hidx, lat, lon, um, msgs,
              reply, resolved, hApp, appended, evicted, lastRun>>

NormOnce ==
    /\ norm.pc = "start"
    /\ norm' = [norm EXCEPT !.pc = "once",
                            !.once = normalize_phrase(norm.phrase, morph)]
    /\ UNCHANGED <<morph, pipeline>>

NormTwice ==
    /\ norm.pc = "once"
    /\ norm' = [norm EXCEPT !.pc = "twice",
                            !.twice = normalize_phrase(norm.once, morph)]
    /\ UNCHANGED <<morph, pipeline>>

NextNorm ==
    \/ NormOnce
    \/ NormTwice

SpecNorm == InitNorm /\ [][NextNorm]_vars

-----------------------------------------------------------------------------
(* Properties *)

Age(c, r) == um[c].now - r.timestamp

(* The records a read of the CSV gives *)
Store == read_csv(csv)

Quiescent == hpc = "idle" /\ \A c \in Callers : um[c].pc = "idle"

(* The record the handler would append for a Location the service returned *)
SameRecord(row, loc) ==
    row.place = loc.place /\ row.lat = loc.lat /\ row.lon = loc.lon

(* C1: once every in-flight operation has finished, every record that was *)
(* appended and is at most one hour old is present in the store.          *)
C1_NoFreshRecordLost ==
    Quiescent =>
        \A r \in appended : now - r.timestamp <= WindowSecs => r \in Range(Store)

(* C2: store operations are serialized: at most one update_map is between *)
(* its read of the CSV and its rewrite, and no append happens while an     *)
(* update_map is between its read and its rewrite.                         *)
MidPass(c) == um[c].pc = "write"

C2_Serialized ==
    /\ [](Cardinality({c \in Callers : MidPass(c)}) <= 1)
    /\ [][(\E c \in Callers : MidPass(c)) => appended' = appended]_vars

(* C3: an uninterrupted prune pass at time now leaves exactly the records  *)
(* with now - timestamp <= 1 hour: every remaining record is within the    *)
(* window and every removed record was older than the window.              *)
PruneStep(c) == um[c].pc = "write" /\ um'[c].pc = "save" /\ Store = um[c].raw

C3_PruneExact ==
    [][\A c \in Callers : PruneStep(c) =>
          /\ \A i \in 1..Len(Store') : Age(c, Store'[i]) <= WindowSecs
          /\ \A i \in 1..Len(Store) :
                Store[i] \notin Range(Store') => Age(c, Store[i]) > WindowSecs
          /\ Len(Store') = Cardinality({i \in 1..Len(Store) : Age(c, Store[i]) <= WindowSecs})
      ]_vars

(* a pass has just rewritten the CSV, evicting a record older than one     *)
(* hour and retaining a record of age exactly one hour                     *)
C3_Witness ==
    \E c \in Callers :
        /\ um[c].pc = "save"
        /\ Store = um[c].df
        /\ \E r \in Range(um[c].raw) : Age(c, r) > WindowSecs /\ r \notin Range(Store)
        /\ \E r \in Range(Store) : Age(c, r) = WindowSecs

(* C4: the tier of every record read by update_map follows the boundary    *)
(* table: red up to 15 min, yellow up to 30 min, gray up to 60 min, and no *)
(* marker beyond 60 min.                                                   *)
Tier(age) ==
    IF age <= 15 * 60 THEN "red"
    ELSE IF age <= 30 * 60 THEN "yellow"
    ELSE IF age <= 60 * 60 THEN "gray"
    ELSE "excluded"

Drawn(c) ==
    FilterSeq(um[c].raw, [r \in Range(um[c].raw) |-> Tier(Age(c, r)) # "excluded"])

C4_TierTable ==
    \A c \in Callers : um[c].pc \in {"write", "save"} =>
        /\ Len(um[c].m.markers) = Len(Drawn(c))
        /\ \A i \in 1..Len(Drawn(c)) :
              /\ um[c].m.markers[i].color = Tier(Age(c, Drawn(c)[i]))
              /\ um[c].m.markers[i].popup = Drawn(c)[i].message

(* a pass read a record of age 60:00, drawn gray, and one of age 60:01,    *)
(* not drawn                                                               *)
C4_Witness ==
    \E c \in Callers :
        /\ um[c].pc = "write"
        /\ \E r \in Range(um[c].raw) : Age(c, r) = WindowSecs
        /\ \E r \in Range(um[c].raw) : Age(c, r) = WindowSecs + 1
        /\ Len(um[c].m.markers) = 1
        /\ um[c].m.markers[1].color = "gray"

(* further boundary cases of C4, each reached by some pass *)
C4_Reach15 ==
    \E c \in Callers : um[c].pc = "write" /\ \E i \in 1..Len(um[c].df) :
        Age(c, um[c].df[i]) = 900 /\ um[c].m.markers[i].color = "red"
C4_Reach15_01 ==
    \E c \in Callers : um[c].pc = "write" /\ \E i \in 1..Len(um[c].df) :
        Age(c, um[c].df[i]) = 901 /\ um[c].m.markers[i].color = "yellow"
C4_Reach30 ==
    \E c \in Callers : um[c].pc = "write" /\ \E i \in 1..Len(um[c].df) :
        Age(c, um[c].df[i]) = 1800 /\ um[c].m.markers[i].color = "yellow"
C4_Reach30_01 ==
    \E c \in Callers : um[c].pc = "write" /\ \E i \in 1..Len(um[c].df) :
        Age(c, um[c].df[i]) = 1801 /\ um[c].m.markers[i].color = "gray"

(* C5: every record in the store has a latitude and a longitude. *)
C5_CoordinatesPresent ==
    \A i \in 1..Len(Store) : Store[i].lat # None /\ Store[i].lon # None

(* the handler has dropped a location without result after appending one *)
C5_Witness ==
    /\ hpc = "loop"
    /\ hidx = 3
    /\ lat = None
    /\ lon = None
    /\ Len(hApp) = 1
    /\ hApp[1] \in Range(Store)

(* C6: every location for which the service returned a coordinate pair is *)
(* appended as one record, in order and with multiplicity, zero           *)
(* coordinates included.                                                   *)
C6_EveryResolvedAppended ==
    hpc \in {"loop", "um"} =>
        /\ Len(hApp) = Len(resolved)
        /\ \A i \in 1..Len(resolved) : SameRecord(hApp[i], resolved[i])

(* C7: a handler run that resolved a location returns only through         *)
(* update_map, and update_map starts after the loop over the locations     *)
(* has ended, with no append by the handler afterwards.                    *)
C7_RenderAfterAppends ==
    [][/\ (hpc # "idle" /\ hpc' = "idle" /\ resolved # <<>>)
            => (hpc = "um" /\ um["tg"].pc = "save")
       /\ (um["tg"].pc = "idle" /\ um'["tg"].pc = "read")
            => hidx > Len(locations)
       /\ hpc = "um" => (hApp' = hApp \/ hpc' = "idle")
      ]_vars

(* the handler is inside update_map after having appended a record *)
C7_Witness ==
    /\ hpc = "um"
    /\ um["tg"].pc = "write"
    /\ resolved # <<>>
    /\ hApp # <<>>
    /\ hidx > Len(locations)

(* C8: geocode_location never raises; when the service raises, times out   *)
(* or finds nothing it returns (None, None); a result never has exactly    *)
(* one coordinate.                                                         *)
C8_GeocodeNeverRaises ==
    [][(hpc = "geocoded" /\ hpc' # "geocoded") =>
          /\ hpc' # "failed"
          /\ reply.kind \in {"exception", "timeout", "nomatch"}
                => (lat' = None /\ lon' = None)
          /\ (lat' = None) <=> (lon' = None)
      ]_vars

(* both locations of a message got the empty result and the loop went on *)
C8_Witness ==
    /\ hpc = "loop"
    /\ hidx = 3
    /\ resolved = <<>>
    /\ lat = None
    /\ lon = None

(* C9: when some location of the message failed, every location of the    *)
(* message that resolved is still appended, and the handler run does not   *)
(* end in an exception.                                                    *)
C9_FailureDoesNotAbort ==
    /\ hpc # "failed"
    /\ (hpc \in {"loop", "um"} /\ hidx - 1 > Len(resolved)) =>
          \A i \in 1..Len(resolved) :
              \E j \in 1..Len(hApp) : SameRecord(hApp[j], resolved[i])

(* C10: all records appended while handling one message have the same      *)
(* timestamp.                                                              *)
C10_OneTimestampPerMessage ==
    \A i, j \in 1..Len(hApp) : hApp[i].timestamp = hApp[j].timestamp

(* C11: once save_to_csv has appended a record, a read of the CSV filtered *)
(* at any time within the record's retention window contains a record      *)
(* equal to it in message, place, lat, lon and timestamp.                  *)
AppendStep == Len(hApp') = Len(hApp) + 1

C11_RoundTrip ==
    [][AppendStep =>
          \A t \in Instants :
              (t >= now /\ t - hApp'[Len(hApp')].timestamp <= WindowSecs)
                  => hApp'[Len(hApp')] \in Range(Prune(read_csv(csv'), t))
      ]_vars

(* a pass has read the CSV right after an append made at a time with       *)
(* seconds, and holds the appended record                                  *)
C11_Witness ==
    \E c \in Callers :
        /\ um[c].pc = "write"
        /\ hApp # <<>>
        /\ hApp[Len(hApp)].timestamp = 1
        /\ um[c].raw = Store
        /\ hApp[Len(hApp)] \in Range(um[c].df)

(* C12: a record that a prune pass has discarded is never in the store     *)
(* again.                                                                  *)
C12_EvictionPermanent ==
    \A r \in evicted : r \notin Range(Store)


FirstLemma(w) == IF morph[w] = <<>> THEN w ELSE morph[w][1]

LemmasFixed(p) ==
    \A i \in 1..Len(p) :
        p[i] # Blank => FirstLemma(FirstLemma(p[i])) = FirstLemma(p[i])

EmptyArtifact(m) ==
    m.markers = <<>> /\ m.location = <<504501, 305234>> /\ m.zoom_start = 10

C14_EmptyStoreRender ==
    /\ [](appended = {} => (Store = <<>> /\ EmptyArtifact(mapFile)))
    /\ [][\A c \in Callers :
            /\ (um[c].pc = "write" /\ um'[c].pc = "save" /\ um[c].raw = <<>>)
                  => Store' = <<>>
            /\ (um[c].pc = "save" /\ um'[c].pc = "idle" /\ um[c].raw = <<>>)
                  => EmptyArtifact(mapFile')
         ]_vars

(* before any append, a run that read the empty store has rewritten it and *)
(* is about to save its map                                                *)
C14_Witness ==
    \E c \in Callers :
        /\ appended = {}
        /\ um[c].pc = "save"
        /\ um[c].raw = <<>>
        /\ Store = <<>>
        /\ EmptyArtifact(um[c].m)

(* C15: the timestamps of the store never decrease in file order. *)
C15_TimestampsMonotone ==
    \A i, j \in 1..Len(Store) : i < j => Store[i].timestamp <= Store[j].timestamp

(* a pass has rewritten a store of two records appended at different times *)
C15_Witness ==
    \E c \in Callers :
        /\ um[c].pc = "save"
        /\ Store = um[c].df
        /\ Len(Store) = 2
        /\ Store[1].timestamp < Store[2].timestamp

(* C16: the rewrite of a prune pass changes the store only by removing the *)
(* records older than the window, keeping the others as they are and in    *)
(* order; no other step removes or changes a record.                       *)
WriteStep(c) == um[c].pc = "write" /\ um'[c].pc = "save"

C16_PruneOnlyRemovesOld ==
    [][/\ \A c \in Callers : WriteStep(c) =>
              Store' = FilterSeq(Store, [r \in Range(Store) |->
                                            Age(c, r) <= WindowSecs])
       /\ (~ \E c \in Callers : WriteStep(c)) =>
              /\ Len(Store') >= Len(Store)
              /\ \A i \in 1..Len(Store) : Store'[i] = Store[i]
      ]_vars

(* C17: an update_map run that starts right after an undisturbed run, at   *)
(* the same time and with no append in between, computes the store content *)
(* and the map the first run left, and its rewrite leaves the CSV as it is. *)
C17_RerenderIdempotent ==
    [][\A c \in Callers :
          /\ (um[c].pc = "read" /\ um'[c].pc = "write" /\ lastRun = now)
                => (um'[c].df = Store /\ um'[c].m = mapFile)
          /\ (WriteStep(c) /\ um[c].alone /\ lastRun = um[c].now)
                => csv' = csv
      ]_vars

(* a second run has read the store right after an undisturbed run that     *)
(* drew a marker, at the same time                                         *)
C17_Witness ==
    \E c \in Callers :
        /\ um[c].pc = "write"
        /\ um[c].alone
        /\ lastRun = um[c].now
        /\ um[c].now > 1
        /\ um[c].m = mapFile
        /\ um[c].df = Store
        /\ Len(mapFile.markers) >= 1

(* C18: when an undisturbed update_map run ends, the artifact has exactly  *)
(* one marker per record of the store, at the record's (lat, lon), with    *)
(* the record's message as label and the colour of the record's tier.      *)
MarkersMatch(m, st, t) ==
    /\ Len(m.markers) = Len(st)
    /\ \A i \in 1..Len(st) :
          /\ m.markers[i].location = <<st[i].lat, st[i].lon>>
          /\ m.markers[i].popup = st[i].message
          /\ m.markers[i].color = Tier(t - st[i].timestamp)

C18_OneMarkerPerRecord ==
    [][\A c \in Callers :
          (um[c].pc = "save" /\ um'[c].pc = "idle" /\ um[c].alone)
              => MarkersMatch(mapFile', Store', um[c].now)
      ]_vars

(* an undisturbed run has just ended with two records in the store and two *)
(* markers of different colours                                            *)
C18_Witness ==
    /\ lastRun # None
    /\ Len(Store) = 2
    /\ Len(mapFile.markers) = 2
    /\ mapFile.markers[1].color # mapFile.markers[2].color

(* C19: whenever no store operation is in progress, the markers of the     *)
(* saved artifact are the records of the CSV.                              *)
C19_ArtifactAgreesWithStore ==
    Quiescent =>
        /\ Len(mapFile.markers) = Len(Store)
        /\ \A i \in 1..Len(Store) :
              /\ mapFile.markers[i].location = <<Store[i].lat, Store[i].lon>>
              /\ mapFile.markers[i].popup = Store[i].message

=============================================================================
